---- MODULE Spec2Model ----
(***************************************************************************)
(* A model of the Square -> Zoho CRM bridge (src/main.py): the webhook     *)
(* handler square_webhook and the functions it calls, with the Zoho CRM    *)
(* (Contacts, Leads, Deals, Events, Tasks) and the Square booking platform *)
(* as the environment.  One handler step is one outbound HTTP call of the  *)
(* code, taken in the order the code takes them.                           *)
(***************************************************************************)
EXTENDS Integers, Sequences, FiniteSets, TLC

(***************************************************************************)
(* Bounds of the model.                                                    *)
(***************************************************************************)
\* Number of webhook deliveries in one behaviour.
MaxDeliveries == 3
\* Last tick of the clock of the token specification.
MaxTime == 4
\* Number of calls of zoho_access_token in one behaviour of SpecToken.
MaxRequests == 4
\* Number of webhook deliveries in one behaviour when CRM calls may fail.
MaxFaultDeliveries == 2
\* Number of webhook deliveries in one behaviour of concurrent handlers.
MaxRaceDeliveries == 2
\* Length of the short phone strings normalize_phone is applied to.
MaxPhoneLen == 3

(***************************************************************************)
(* Program constants.                                                      *)
(***************************************************************************)
\* range(4) in square_get_booking.
FetchAttempts == 4
\* Lifetime, in ticks, of an access token the Zoho token endpoint issues.
\* The endpoint's answer carries it (expires_in); the code reads only
\* access_token.
TokenLifetime == 2

DEFAULT_DEAL_STAGE == "Consultation Scheduled"
CANCELED_DEAL_STAGE == "Closed Lost"

(***************************************************************************)
(* Input domains.                                                          *)
(***************************************************************************)
Bookings == {"b1", "b2"}
\* The event types Square may send: the three the spec names, another
\* booking.* type, and a type of another family.
EventTypes == {"booking.created", "booking.updated", "booking.canceled",
               "booking.other", "payment.created"}
\* Customer full names (first and last, as split_name returns them).
Names == {"Ann", "Bo"}
\* Phone numbers are strings: sequences of characters.
NoPhone == << >>
\* Booking start times; 0 is a booking without start_at.
Starts == {0, 1}
\* The identities (email, phone) a customer record may carry: both, a phone
\* alone, a phone without a digit, neither.
FullIdentity == [email |-> "e1", phone |-> <<"5", "5">>]
Identities == {FullIdentity,
               [email |-> "", phone |-> <<"+", "5", "5">>],
               [email |-> "", phone |-> <<"-">>],
               [email |-> "", phone |-> NoPhone]}

\* The inputs of a specification: the bookings and event types of its
\* deliveries, what Square answers for the booking and its customer, and
\* the number of deliveries.
SyncWorld == [bookings |-> Bookings, types |-> EventTypes, names |-> Names,
              identities |-> {FullIdentity}, starts |-> {1},
              deliveries |-> MaxDeliveries]
PersonWorld == [bookings |-> {"b1"}, types |-> {"booking.created", "booking.canceled"},
                names |-> {"Ann"}, identities |-> Identities, starts |-> Starts,
                deliveries |-> MaxDeliveries]
\* One booking, created and canceled, of one customer.
FaultWorld == [bookings |-> {"b1"}, types |-> {"booking.created", "booking.canceled"},
               names |-> {"Ann"}, identities |-> {FullIdentity}, starts |-> {1},
               deliveries |-> MaxFaultDeliveries]
\* The same booking delivered to handlers that run at the same time.
RaceWorld == [bookings |-> {"b1"}, types |-> {"booking.created", "booking.canceled"},
              names |-> {"Ann"}, identities |-> {FullIdentity}, starts |-> {1},
              deliveries |-> MaxRaceDeliveries]
Procs == {1, 2}

(***************************************************************************)
(* Helpers (pure functions of the code).                                   *)
(***************************************************************************)
Digits == {"0", "1", "2", "3", "4", "5", "6", "7", "8", "9"}

\* "".join(c for c in phone if c.isdigit())
RECURSIVE DigitsOf(_)
DigitsOf(s) ==
    IF s = << >> THEN << >>
    ELSE IF Head(s) \in Digits THEN <<Head(s)>> \o DigitsOf(Tail(s))
    ELSE DigitsOf(Tail(s))

\* str.lstrip("0")
RECURSIVE LStripZeros(_)
LStripZeros(s) ==
    IF s # << >> /\ Head(s) = "0" THEN LStripZeros(Tail(s)) ELSE s

\* str.strip(): leading and trailing blanks removed
RECURSIVE LStripBlanks(_)
LStripBlanks(s) ==
    IF s # << >> /\ Head(s) = " " THEN LStripBlanks(Tail(s)) ELSE s

RECURSIVE RStripBlanks(_)
RStripBlanks(s) ==
    IF s # << >> /\ s[Len(s)] = " "
    THEN RStripBlanks(SubSeq(s, 1, Len(s) - 1)) ELSE s

Strip(s) == RStripBlanks(LStripBlanks(s))

StartsWithPlus(s) == s # << >> /\ Head(s) = "+"

normalize_phone(phone) ==
    LET digits == DigitsOf(phone) IN
    IF phone = << >> THEN << >>
    ELSE IF digits = << >> THEN << >>
    ELSE IF StartsWithPlus(Strip(phone)) THEN <<"+">> \o LStripZeros(digits)
    ELSE IF Len(digits) = 10 THEN <<"+", "1">> \o digits
    ELSE <<"+">> \o digits

phones_equal(a, b) == DigitsOf(a) = DigitsOf(b)

\* base64(HMAC_SHA1(key, notification_url + body)): a value that determines,
\* and is determined by, the key, the URL and the body.
Signature(key, url, body) == <<"hmac", key, url, body>>
NoSignature == << >>

\* The verifier without its comparison: any signature passes once the key
\* and the URL are configured.
signature_unchecked(body, signature, signature_key, notification_url) ==
    ~(signature = NoSignature \/ signature_key = "" \/ notification_url = "")

\* The verifier passing open when no key is configured.
signature_pass_open(body, signature, signature_key, notification_url) ==
    IF signature_key = "" THEN TRUE
    ELSE IF signature = NoSignature \/ notification_url = "" THEN FALSE
    ELSE Signature(signature_key, notification_url, body) = signature

is_valid_webhook_event_signature(body, signature, signature_key, notification_url) ==
    IF signature = NoSignature \/ signature_key = "" \/ notification_url = ""
    THEN FALSE
    ELSE Signature(signature_key, notification_url, body) = signature

\* build_deal_name: the name and the booking id determine it.
build_deal_name(name, booking_id) == <<name, booking_id>>

(***************************************************************************)
(* State.                                                                  *)
(***************************************************************************)
VARIABLES
    env,        \* the configuration read from the environment at start
    contacts,   \* CRM Contacts: record id -> [Email, Phone, Mobile]
    leads,      \* CRM Leads (the other person kind of the CRM)
    deals,      \* CRM Deals: record id -> [name, stage, contact, ext]
    events,     \* CRM Events: record id -> [ext, what, who, start, canceled, name]
    tasks,      \* number of CRM Tasks created
    token,      \* _token_cache["token"]: 0 is None
    issued,     \* expiry times of the tokens the token endpoint has issued
    now,        \* the clock
    delivered,  \* number of deliveries so far
    made,       \* history: the contacts ensure_contact created, for whom, and
                \* in which delivery
    h,          \* the request handlers: position and locals of each
    treq,       \* the callers of zoho_access_token (token specification)
    pcall       \* a caller of normalize_phone: its argument and results

vars == <<env, contacts, leads, deals, events, tasks, token, issued, now,
          delivered, made, h, treq, pcall>>

crm == <<contacts, leads, deals, events, tasks>>

\* The body of a request that is not JSON.
BadBody == [json |-> FALSE, type |-> "", id |-> ""]
Bodies(W) == {BadBody} \cup [json : {TRUE}, type : W.types, id : W.bookings]
\* The keys a sender may sign with and the URL Square signs.
SenderKeys == {"k1", "k2"}
SignedUrl == "u1"

NoContact == [Email |-> "", Phone |-> NoPhone, Mobile |-> NoPhone]

NoSnapshot == [contacts |-> << >>, leads |-> {}, deals |-> << >>,
               events |-> << >>, tasks |-> 0]

\* A handler with no request.  found_by is ensure_contact's local of that
\* name, nPhone the number of searches contact_search_by_phone has made.
Idle == [pc |-> "idle", body |-> BadBody, sigv |-> NoSignature,
         attempt |-> 0, last |-> "", bid |-> "",
         name |-> "", email |-> "", phone |-> NoPhone, start |-> 0,
         cid |-> 0, crec |-> NoContact, did |-> 0, eid |-> 0,
         code |-> 0, marker |-> "",
         nSquare |-> 0, nCrm |-> 0, nRefresh |-> 0,
         out |-> "", tries |-> 0, wfail |-> FALSE,
         found_by |-> "", nPhone |-> 0,
         pre |-> NoSnapshot]

\* A caller of zoho_access_token that has made no call: n counts its calls;
\* had and expired say whether, when the call began, the cache held a token
\* and whether that token had expired; refreshes counts the call's requests
\* to the token endpoint; tok is the token the endpoint answered with and
\* got the token the call returned (0: none, the call raised).
IdleCaller == [pc |-> "idle", n |-> 0, had |-> FALSE, expired |-> FALSE,
               refreshes |-> 0, tok |-> 0, got |-> 0]

\* The CRM as a request finds it.
Snapshot == [contacts |-> contacts, leads |-> leads, deals |-> deals,
             events |-> events, tasks |-> tasks]

(***************************************************************************)
(* Initial states.                                                         *)
(***************************************************************************)
Contact(e, p, m) == [Email |-> e, Phone |-> p, Mobile |-> m]
P55 == <<"+", "5", "5">>

\* The persons the CRM holds before the first delivery.
InitialPersons ==
    { [contacts |-> << >>, leads |-> {}],
      [contacts |-> <<Contact("e1", NoPhone, NoPhone)>>, leads |-> {}],
      [contacts |-> <<Contact("", NoPhone, P55)>>, leads |-> {}],
      [contacts |-> <<Contact("e1", NoPhone, NoPhone), Contact("", P55, NoPhone)>>,
       leads |-> {}],
      [contacts |-> << >>, leads |-> {Contact("e1", P55, NoPhone)}] }

Env(key, url, dealExt, autoCreate) ==
    [key |-> key, url |-> url, dealExt |-> dealExt, autoCreate |-> autoCreate]

Nobody == [contacts |-> << >>, leads |-> {}]

\* The state when the process has started: the configuration is one of envs,
\* the CRM holds one of persons, no request has arrived, no token is cached.
InitWith(envs, persons) ==
    /\ env \in envs
    /\ \E ps \in persons : contacts = ps.contacts /\ leads = ps.leads
    /\ deals = << >>
    /\ events = << >>
    /\ tasks = 0
    /\ token = 0
    /\ issued = << >>
    /\ now = 0
    /\ delivered = 0
    /\ made = {}
    /\ h = [p \in Procs |-> Idle]
    /\ treq = [p \in Procs |-> IdleCaller]
    /\ pcall = [pc |-> "idle", x |-> NoPhone, once |-> NoPhone, twice |-> NoPhone]

\* The synchronization of bookings.  The webhook key and URL are configured
\* or not; with both configured, the deal's external-id field is configured
\* or not and the CRM holds nobody or the customer without a phone; contacts
\* are created when not found, or (in an empty CRM) not.
Init ==
    \/ InitWith({Env(k, u, TRUE, TRUE) : k \in {"", "k1"}, u \in {"", "u1"}}
                  \cup {Env("k1", "u1", FALSE, TRUE), Env("k1", "u1", TRUE, FALSE)},
                {Nobody})
    \/ InitWith({Env("k1", "u1", d, TRUE) : d \in BOOLEAN},
                {[contacts |-> <<Contact("e1", NoPhone, NoPhone)>>, leads |-> {}]})

\* The resolution of persons: a CRM that holds persons already.
InitPersons ==
    InitWith({Env("k1", "u1", TRUE, a) : a \in BOOLEAN}, InitialPersons)

(***************************************************************************)
(* The CRM's search (the criteria zoho_search is called with) and the      *)
(* outcomes of a CRM call.                                                 *)
(***************************************************************************)
ContactsByEmail(e) == {i \in DOMAIN contacts : contacts[i].Email = e}
ContactsByPhone(ph) == {i \in DOMAIN contacts : contacts[i].Phone = ph}
ContactsByMobile(ph) == {i \in DOMAIN contacts : contacts[i].Mobile = ph}
DealsByExt(b) == {i \in DOMAIN deals : deals[i].ext = b}
DealsByName(n) == {i \in DOMAIN deals : deals[i].name = n}
\* The search by EVENT_EXT_ID_FIELD as it would be with the criteria naming
\* another field (the title): it never finds the booking's entry.
EventsByWrongField(b) == {i \in DOMAIN events : events[i].name = b}
EventsByExt(b) == {i \in DOMAIN events : events[i].ext = b}
EventsByDealStart(d, st) ==
    {i \in DOMAIN events : events[i].what = d /\ events[i].start = st}
EventsByDeal(d) == {i \in DOMAIN events : events[i].what = d}

\* res[0] if res else None: any record of the answer, 0 for None.
First(res) == IF res = {} THEN {0} ELSE res

\* The outcomes of one CRM call, among those F allows: "ok"; "invalid" (a
\* search answered 400, read as an empty answer); "limited" (429, too many
\* requests) and "error" (another status), on both of which raise_for_status
\* raises; "auth" (the token refresh this call needed failed).
Reliable == {"ok"}
Faulty == {"ok", "invalid", "limited", "error", "auth"}
SearchOutcomes(F) == {o \in F : o = "auth" => token = 0}
CallOutcomes(F) == SearchOutcomes(F) \ {"invalid"}

\* zoho_search's answer: the matching records, or [] on 400.
zoho_search(o, matching) == IF o = "invalid" THEN {} ELSE matching

\* zoho_access_token as one step of a CRM call: the cached token, or a
\* refresh that caches the token it is issued.
Refreshes(o) == token = 0 /\ o # "auth"
UseToken(o) ==
    /\ token' = IF Refreshes(o) THEN Len(issued) + 1 ELSE token
    /\ issued' = IF Refreshes(o) THEN Append(issued, now + TokenLifetime) ELSE issued

\* The handler's locals after one more CRM call with outcome o: the call
\* makes one request (tries), whatever the answer.
Called(r, o) == [r EXCEPT !.nCrm = @ + 1,
                          !.nRefresh = IF token = 0 THEN @ + 1 ELSE @,
                          !.out = o, !.tries = 1]

\* The same after a zoho_create or zoho_update of a contact, a deal or an
\* event: wfail records that one of the request's creates or updates was
\* answered an error status.
Wrote(r, o) == [Called(r, o) EXCEPT !.wfail = @ \/ o = "error"]

Raised(o) == o \in {"limited", "error", "auth"}

(***************************************************************************)
(* The handler's control flow between HTTP calls.                          *)
(***************************************************************************)
Respond(p, r, code, marker) ==
    h' = [h EXCEPT ![p] = [r EXCEPT !.pc = "done", !.code = code, !.marker = marker]]

Goto(p, r, pc) == h' = [h EXCEPT ![p] = [r EXCEPT !.pc = pc]]

\* event_type.startswith("booking.")
IsBookingType(type) ==
    type \in {"booking.created", "booking.updated", "booking.canceled", "booking.other"}

\* ensure_contact when no contact was found: create, or 409.
NotFoundPc == IF env.autoCreate THEN "c_create" ELSE "c_task409"

\* ensure_contact without its search by phone.
AfterEmailMissNoPhone(r) == NotFoundPc

\* ensure_contact after the email search found nothing (or was skipped):
\* contact_search_by_phone searches only a phone that normalizes to something.
AfterEmailMiss(r) ==
    IF r.phone # NoPhone /\ normalize_phone(r.phone) # << >>
    THEN "c_phone" ELSE NotFoundPc

\* ensure_contact without its search by email.
ContactEntryPhoneOnly(r) == AfterEmailMiss(r)

\* ensure_contact's entry.
ContactEntry(r) == IF r.email # "" THEN "c_email" ELSE AfterEmailMiss(r)

\* The fields ensure_contact backfills on the contact c it found.
UpdateFields(c, r) ==
    LET np == normalize_phone(r.phone) IN
    (IF np # << >> /\ ~phones_equal(np, normalize_phone(c.Phone))
     THEN {"Phone"} ELSE {})
    \cup (IF np # << >> /\ ~phones_equal(np, normalize_phone(c.Mobile))
          THEN {"Mobile"} ELSE {})
    \cup (IF r.email # "" /\ c.Email = "" THEN {"Email"} ELSE {})

ApplyContactUpdates(cur, fields, r) ==
    [Email |-> IF "Email" \in fields THEN r.email ELSE cur.Email,
     Phone |-> IF "Phone" \in fields THEN normalize_phone(r.phone) ELSE cur.Phone,
     Mobile |-> IF "Mobile" \in fields THEN normalize_phone(r.phone) ELSE cur.Mobile]

\* find_existing_deal without its search by external id.
DealEntryNameOnly == "d_name"
\* find_existing_deal's entry: the search by external id only when configured.
DealEntry == IF env.dealExt THEN "d_ext" ELSE "d_name"

\* ensure_contact once a contact c (its record rec) is found.
ContactFound(p, r, c) ==
    LET r2 == [r EXCEPT !.cid = c, !.crec = contacts[c]] IN
    Goto(p, r2, IF UpdateFields(contacts[c], r) # {} THEN "c_update" ELSE DealEntry)

\* square_webhook after upsert_deal returned.
AfterDeal(r) == IF r.body.type = "booking.canceled" THEN "x_deal" ELSE "e_square"

\* The data upsert_deal writes.
DealData(r, old) ==
    [name |-> build_deal_name(r.name, r.bid), stage |-> DEFAULT_DEAL_STAGE,
     contact |-> r.cid, ext |-> IF env.dealExt THEN r.bid ELSE old]

\* The payload upsert_event writes.
EventPayload(r) ==
    [ext |-> r.bid, what |-> r.did, who |-> r.cid, start |-> r.start,
     canceled |-> FALSE, name |-> r.name]

(***************************************************************************)
(* square_webhook: the request, the signature check, the event type.       *)
(***************************************************************************)
\* A request arrives at handler p and is handled up to its first HTTP call.
Deliver(p, body, signature) ==
    LET r == [Idle EXCEPT !.body = body, !.sigv = signature, !.pre = Snapshot] IN
    /\ h[p].pc \in {"idle", "done"}
    /\ delivered < MaxDeliveries
    /\ delivered' = delivered + 1
    /\ IF signature = NoSignature
       THEN Respond(p, r, 401, "Missing signature")
       ELSE IF ~is_valid_webhook_event_signature(body, signature, env.key, env.url)
       THEN Respond(p, r, 401, "Invalid Square signature")
       ELSE IF ~body.json
       THEN Respond(p, r, 400, "Invalid JSON payload")
       ELSE IF ~IsBookingType(body.type)
       THEN Respond(p, r, 200, "ignored")
       ELSE Goto(p, r, "fetch")
    /\ UNCHANGED <<pcall, env, crm, token, issued, now, made, treq>>

\* The requests a sender may make: any body, unsigned, signed with some key,
\* or carrying the signature the configured key gives another body.
Receive(p, W) ==
    /\ delivered < W.deliveries
    /\ \E body \in Bodies(W) :
           \E signature \in {NoSignature, Signature("k1", SignedUrl, BadBody)} \cup
                            {Signature(k, SignedUrl, body) : k \in SenderKeys} :
               Deliver(p, body, signature)

(***************************************************************************)
(* square_get_booking: one GET per step, at most FetchAttempts of them.    *)
(***************************************************************************)
SquareStatuses == {"200", "200 empty", "404", "500"}

\* The loop retrying on every status that is not 200, without a last attempt.
FetchDecisionUnbounded(status, attempt) ==
    IF status = "200" THEN "booking" ELSE "retry"

\* What the loop does with the answer to its attempt-th request: return the
\* booking, sleep and try again, or leave the loop and return None.
FetchDecision(status, attempt) ==
    IF status = "200" THEN "booking"
    ELSE IF status = "200 empty" THEN "none"
    ELSE IF status = "404" /\ attempt < FetchAttempts THEN "retry"
    ELSE "none"

FetchBooking(p, W) ==
    /\ h[p].pc = "fetch"
    /\ \E status \in SquareStatuses :
        LET r == [h[p] EXCEPT !.nSquare = @ + 1, !.attempt = @ + 1, !.last = status]
            d == FetchDecision(status, r.attempt) IN
        IF d = "booking"
        THEN \E st \in W.starts :
                Goto(p, [r EXCEPT !.start = st, !.bid = r.body.id], "customer")
        ELSE IF d = "retry"
        THEN Goto(p, r, "fetch")
        ELSE Respond(p, r, 200, "booking not available yet")
    /\ UNCHANGED <<pcall, env, crm, token, issued, now, made, delivered, treq>>

\* square_get_customer (the booking names its customer) and the name, email
\* and phone the handler takes from the customer or, where the customer has
\* none, from the first attendee.  A customer that cannot be fetched is None,
\* and reading it raises: the request ends 500.
GetCustomer(p, W) ==
    LET r == [h[p] EXCEPT !.nSquare = @ + 1] IN
    /\ h[p].pc = "customer"
    /\ \E ok \in BOOLEAN :
        IF ok
        THEN \E n \in W.names, id \in W.identities :
                LET r2 == [r EXCEPT !.name = n, !.email = id.email, !.phone = id.phone]
                IN Goto(p, r2, ContactEntry(r2))
        ELSE Respond(p, r, 500, "Internal Server Error")
    /\ UNCHANGED <<pcall, env, crm, token, issued, now, made, delivered, treq>>

(***************************************************************************)
(* ensure_contact.                                                         *)
(***************************************************************************)
\* contact_search_by_email
SearchContactEmail(p, F) ==
    /\ h[p].pc = "c_email"
    /\ \E o \in SearchOutcomes(F) :
        LET r == Called(h[p], o) IN
        /\ UseToken(o)
        /\ IF Raised(o)
           THEN Respond(p, r, 500, "Internal Server Error")
           ELSE \E c \in First(zoho_search(o, ContactsByEmail(r.email))) :
                   IF c # 0 THEN ContactFound(p, [r EXCEPT !.found_by = "email"], c)
                   ELSE Goto(p, r, AfterEmailMiss(r))
    /\ UNCHANGED <<pcall, env, crm, now, made, delivered, treq>>

\* contact_search_by_phone: the search of Phone
SearchContactPhone(p, F) ==
    /\ h[p].pc = "c_phone"
    /\ \E o \in SearchOutcomes(F) :
        LET r == [Called(h[p], o) EXCEPT !.nPhone = @ + 1] IN
        /\ UseToken(o)
        /\ IF Raised(o)
           THEN Respond(p, r, 500, "Internal Server Error")
           ELSE \E c \in First(zoho_search(o, ContactsByPhone(normalize_phone(r.phone)))) :
                   IF c # 0 THEN ContactFound(p, [r EXCEPT !.found_by = "phone"], c)
                   ELSE Goto(p, r, "c_mobile")
    /\ UNCHANGED <<pcall, env, crm, now, made, delivered, treq>>

\* contact_search_by_phone: the search of Mobile
SearchContactMobile(p, F) ==
    /\ h[p].pc = "c_mobile"
    /\ \E o \in SearchOutcomes(F) :
        LET r == [Called(h[p], o) EXCEPT !.nPhone = @ + 1] IN
        /\ UseToken(o)
        /\ IF Raised(o)
           THEN Respond(p, r, 500, "Internal Server Error")
           ELSE \E c \in First(zoho_search(o, ContactsByMobile(normalize_phone(r.phone)))) :
                   IF c # 0 THEN ContactFound(p, [r EXCEPT !.found_by = "phone"], c)
                   ELSE Goto(p, r, NotFoundPc)
    /\ UNCHANGED <<pcall, env, crm, now, made, delivered, treq>>

\* The backfill of the contact found; a failure is logged and swallowed.
UpdateContact(p, F) ==
    /\ h[p].pc = "c_update"
    /\ \E o \in CallOutcomes(F) :
        LET r == Wrote(h[p], o) IN
        /\ UseToken(o)
        /\ contacts' = IF Raised(o) THEN contacts
                       ELSE [contacts EXCEPT ![r.cid] =
                               ApplyContactUpdates(@, UpdateFields(r.crec, r), r)]
        /\ Goto(p, r, DealEntry)
    /\ UNCHANGED <<pcall, env, leads, deals, events, tasks, now, made, delivered, treq>>

\* The record ensure_contact creates.
NewContact(r) ==
    LET np == normalize_phone(r.phone) IN [Email |-> r.email, Phone |-> np, Mobile |-> np]

CreateContact(p, F) ==
    /\ h[p].pc = "c_create"
    /\ \E o \in CallOutcomes(F) :
        LET r == Wrote(h[p], o) IN
        /\ UseToken(o)
        /\ IF Raised(o)
           THEN /\ Respond(p, r, 500, "Internal Server Error")
                /\ UNCHANGED <<contacts, made>>
           ELSE /\ contacts' = Append(contacts, NewContact(r))
                /\ made' = made \cup {[email |-> r.email, phone |-> r.phone,
                                        cid |-> Len(contacts) + 1, at |-> delivered]}
                /\ Goto(p, [r EXCEPT !.cid = Len(contacts) + 1], "c_task")
    /\ UNCHANGED <<pcall, env, leads, deals, events, tasks, now, delivered, treq>>

\* create_task after a contact was created; a failure is logged and swallowed.
CreateTask(p, F) ==
    /\ h[p].pc = "c_task"
    /\ \E o \in CallOutcomes(F) :
        LET r == Called(h[p], o) IN
        /\ UseToken(o)
        /\ tasks' = IF Raised(o) THEN tasks ELSE tasks + 1
        /\ Goto(p, r, DealEntry)
    /\ UNCHANGED <<pcall, env, contacts, leads, deals, events, now, made, delivered, treq>>

\* No contact and CREATE_CONTACT_IF_NOT_FOUND off: a task, then 409.
CreateTaskNotFound(p, F) ==
    /\ h[p].pc = "c_task409"
    /\ \E o \in CallOutcomes(F) :
        LET r == Called(h[p], o) IN
        /\ UseToken(o)
        /\ tasks' = IF Raised(o) THEN tasks ELSE tasks + 1
        /\ Respond(p, r, 409, "Contact not found and auto-create disabled")
    /\ UNCHANGED <<pcall, env, contacts, leads, deals, events, now, made, delivered, treq>>

(***************************************************************************)
(* upsert_deal.                                                            *)
(***************************************************************************)
\* find_existing_deal: the search by DEAL_EXT_ID_FIELD
SearchDealExt(p, F) ==
    /\ h[p].pc = "d_ext"
    /\ \E o \in SearchOutcomes(F) :
        LET r == Called(h[p], o) IN
        /\ UseToken(o)
        /\ IF Raised(o)
           THEN Respond(p, r, 500, "Internal Server Error")
           ELSE \E d \in First(zoho_search(o, DealsByExt(r.bid))) :
                   IF d # 0 THEN Goto(p, [r EXCEPT !.did = d], "d_update")
                   ELSE Goto(p, r, "d_name")
    /\ UNCHANGED <<pcall, env, crm, now, made, delivered, treq>>

\* find_existing_deal: the search by Deal_Name
SearchDealName(p, F) ==
    /\ h[p].pc = "d_name"
    /\ \E o \in SearchOutcomes(F) :
        LET r == Called(h[p], o) IN
        /\ UseToken(o)
        /\ IF Raised(o)
           THEN Respond(p, r, 500, "Internal Server Error")
           ELSE \E d \in First(zoho_search(o, DealsByName(build_deal_name(r.name, r.bid)))) :
                   IF d # 0 THEN Goto(p, [r EXCEPT !.did = d], "d_update")
                   ELSE Goto(p, r, "d_owner")
    /\ UNCHANGED <<pcall, env, crm, now, made, delivered, treq>>

\* The update of the existing deal; a failure is logged and swallowed.
UpdateDeal(p, F) ==
    /\ h[p].pc = "d_update"
    /\ \E o \in CallOutcomes(F) :
        LET r == Wrote(h[p], o) IN
        /\ UseToken(o)
        /\ deals' = IF Raised(o) THEN deals
                    ELSE [deals EXCEPT ![r.did] = DealData(r, @.ext)]
        /\ Goto(p, r, AfterDeal(r))
    /\ UNCHANGED <<pcall, env, contacts, leads, events, tasks, now, made, delivered, treq>>

\* get_contact_owner_id: a record that cannot be read has no owner; only a
\* failed token refresh raises.
GetContactOwner(p, F) ==
    /\ h[p].pc = "d_owner"
    /\ \E o \in CallOutcomes(F) :
        LET r == Called(h[p], o) IN
        /\ UseToken(o)
        /\ IF o = "auth"
           THEN Respond(p, r, 500, "Zoho auth failed")
           ELSE Goto(p, r, "d_create")
    /\ UNCHANGED <<pcall, env, crm, now, made, delivered, treq>>

CreateDeal(p, F) ==
    /\ h[p].pc = "d_create"
    /\ \E o \in CallOutcomes(F) :
        LET r == Wrote(h[p], o) IN
        /\ UseToken(o)
        /\ IF Raised(o)
           THEN /\ Respond(p, r, 500, "Internal Server Error")
                /\ UNCHANGED deals
           ELSE /\ deals' = Append(deals, DealData(r, ""))
                /\ LET r2 == [r EXCEPT !.did = Len(deals) + 1]
                   IN Goto(p, r2, AfterDeal(r2))
    /\ UNCHANGED <<pcall, env, contacts, leads, events, tasks, now, made, delivered, treq>>

(***************************************************************************)
(* cancel_event_and_deal.                                                  *)
(***************************************************************************)
\* The deal moved to CANCELED_DEAL_STAGE; a failure is logged and swallowed.
CancelDeal(p, F) ==
    /\ h[p].pc = "x_deal"
    /\ \E o \in CallOutcomes(F) :
        LET r == Wrote(h[p], o) IN
        /\ UseToken(o)
        /\ deals' = IF Raised(o) THEN deals
                    ELSE [deals EXCEPT ![r.did].stage = CANCELED_DEAL_STAGE]
        /\ Goto(p, r, "x_find")
    /\ UNCHANGED <<pcall, env, contacts, leads, events, tasks, now, made, delivered, treq>>

\* find_event_by_square: a search that raises finds nothing.
CancelFindEvent(p, F) ==
    /\ h[p].pc = "x_find"
    /\ \E o \in SearchOutcomes(F) :
        LET r == Called(h[p], o) IN
        /\ UseToken(o)
        /\ \E e \in First(IF Raised(o) THEN {} ELSE zoho_search(o, EventsByExt(r.bid))) :
               IF e # 0 THEN Goto(p, [r EXCEPT !.eid = e], "x_event")
               ELSE Respond(p, r, 200, "canceled processed")
    /\ UNCHANGED <<pcall, env, crm, now, made, delivered, treq>>

\* cancel_event_and_deal answering without having written the title.
CancelEventUnmarked(p, F) ==
    /\ h[p].pc = "x_event"
    /\ \E o \in CallOutcomes(F) :
        LET r == Wrote(h[p], o) IN
        /\ UseToken(o)
        /\ Respond(p, r, 200, "canceled processed")
    /\ UNCHANGED <<pcall, env, crm, now, made, delivered, treq>>
\* The event's title marked canceled; a failure is logged and swallowed.
CancelEvent(p, F) ==
    /\ h[p].pc = "x_event"
    /\ \E o \in CallOutcomes(F) :
        LET r == Wrote(h[p], o) IN
        /\ UseToken(o)
        /\ events' = IF Raised(o) THEN events
                     ELSE [events EXCEPT ![r.eid].canceled = TRUE,
                                         ![r.eid].name = r.name]
        /\ Respond(p, r, 200, "canceled processed")
    /\ UNCHANGED <<pcall, env, contacts, leads, deals, tasks, now, made, delivered, treq>>

(***************************************************************************)
(* upsert_event.                                                           *)
(***************************************************************************)
\* find_event_by_deal_and_time's entry: the search with the start only when
\* the booking has one.
DealTimeEntry(r) == IF r.start # 0 THEN "e_dealtime" ELSE "e_deal"

\* find_event_by_square: a search that raises finds nothing.
SearchEventSquare(p, F) ==
    /\ h[p].pc = "e_square"
    /\ \E o \in SearchOutcomes(F) :
        LET r == Called(h[p], o) IN
        /\ UseToken(o)
        /\ \E e \in First(IF Raised(o) THEN {} ELSE zoho_search(o, EventsByExt(r.bid))) :
               IF e # 0 THEN Goto(p, [r EXCEPT !.eid = e], "e_update")
               ELSE Goto(p, r, DealTimeEntry(r))
    /\ UNCHANGED <<pcall, env, crm, now, made, delivered, treq>>

\* find_event_by_deal_and_time: the search by deal and start; a search that
\* raises ends the function with None.
SearchEventDealTime(p, F) ==
    /\ h[p].pc = "e_dealtime"
    /\ \E o \in SearchOutcomes(F) :
        LET r == Called(h[p], o) IN
        /\ UseToken(o)
        /\ IF Raised(o)
           THEN Goto(p, r, "e_create")
           ELSE \E e \in First(zoho_search(o, EventsByDealStart(r.did, r.start))) :
                   IF e # 0 THEN Goto(p, [r EXCEPT !.eid = e], "e_update")
                   ELSE Goto(p, r, "e_deal")
    /\ UNCHANGED <<pcall, env, crm, now, made, delivered, treq>>

\* find_event_by_deal_and_time: the search by deal alone
SearchEventDeal(p, F) ==
    /\ h[p].pc = "e_deal"
    /\ \E o \in SearchOutcomes(F) :
        LET r == Called(h[p], o) IN
        /\ UseToken(o)
        /\ \E e \in First(IF Raised(o) THEN {} ELSE zoho_search(o, EventsByDeal(r.did))) :
               IF e # 0 THEN Goto(p, [r EXCEPT !.eid = e], "e_update")
               ELSE Goto(p, r, "e_create")
    /\ UNCHANGED <<pcall, env, crm, now, made, delivered, treq>>

\* The update of the existing event; when it fails the code goes on to create.
UpdateEvent(p, F) ==
    /\ h[p].pc = "e_update"
    /\ \E o \in CallOutcomes(F) :
        LET r == Wrote(h[p], o) IN
        /\ UseToken(o)
        /\ IF Raised(o)
           THEN /\ Goto(p, r, "e_create")
                /\ UNCHANGED events
           ELSE /\ events' = [events EXCEPT ![r.eid] = EventPayload(r)]
                /\ Respond(p, r, 200, "ok")
    /\ UNCHANGED <<pcall, env, contacts, leads, deals, tasks, now, made, delivered, treq>>

CreateEvent(p, F) ==
    /\ h[p].pc = "e_create"
    /\ \E o \in CallOutcomes(F) :
        LET r == Wrote(h[p], o) IN
        /\ UseToken(o)
        /\ IF Raised(o)
           THEN /\ Respond(p, r, 500, "Internal Server Error")
                /\ UNCHANGED events
           ELSE /\ events' = Append(events, EventPayload(r))
                /\ Respond(p, [r EXCEPT !.eid = Len(events) + 1], 200, "ok")
    /\ UNCHANGED <<pcall, env, contacts, leads, deals, tasks, now, made, delivered, treq>>

(***************************************************************************)
(* Specifications.                                                         *)
(***************************************************************************)
\* One step of handler p when the CRM's calls have the outcomes F and the
\* inputs are those of W.
Handler(p, F, W) ==
    \/ Receive(p, W)
    \/ FetchBooking(p, W)
    \/ GetCustomer(p, W)
    \/ SearchContactEmail(p, F)
    \/ SearchContactPhone(p, F)
    \/ SearchContactMobile(p, F)
    \/ UpdateContact(p, F)
    \/ CreateContact(p, F)
    \/ CreateTask(p, F)
    \/ CreateTaskNotFound(p, F)
    \/ SearchDealExt(p, F)
    \/ SearchDealName(p, F)
    \/ UpdateDeal(p, F)
    \/ GetContactOwner(p, F)
    \/ CreateDeal(p, F)
    \/ CancelDeal(p, F)
    \/ CancelFindEvent(p, F)
    \/ CancelEvent(p, F)
    \/ SearchEventSquare(p, F)
    \/ SearchEventDealTime(p, F)
    \/ SearchEventDeal(p, F)
    \/ UpdateEvent(p, F)
    \/ CreateEvent(p, F)

\* Deliveries handled one after another, every CRM call succeeding.
Next == Handler(1, Reliable, SyncWorld)

Spec == Init /\ [][Next]_vars

NextPersons == Handler(1, Reliable, PersonWorld)

SpecPersons == InitPersons /\ [][NextPersons]_vars

\* Deliveries handled one after another by a CRM whose calls may fail.
InitFaults ==
    InitWith({Env("k1", "u1", TRUE, a) : a \in BOOLEAN},
             {Nobody, [contacts |-> <<Contact("e1", NoPhone, NoPhone)>>, leads |-> {}]})

NextFaults == Handler(1, Faulty, FaultWorld)

SpecFaults == InitFaults /\ [][NextFaults]_vars

\* Two handlers at once, as the workers of the request pool run them: each
\* step is one HTTP call of one of them, in any order.  (Within one event
\* loop the handler yields only at its awaits, all before its first CRM call;
\* handlers of different worker processes interleave at every call.  The
\* token each uses does not bear on the records written when calls succeed.)
NextRace == \E p \in Procs : Handler(p, Reliable, RaceWorld)

SpecRace == InitFaults /\ [][NextRace]_vars

(***************************************************************************)
(* zoho_access_token, step by step, and the clock.                         *)
(***************************************************************************)
\* Whether the token endpoint still honours token t.
Expired(t) == t \in DOMAIN issued /\ now >= issued[t]

\* The call begins: a cached token is returned as it is; without one the
\* caller goes on to the token endpoint.
TokenRequest(p) ==
    LET r == [IdleCaller EXCEPT !.n = treq[p].n + 1, !.had = token # 0,
                                !.expired = Expired(token)] IN
    /\ treq[p].pc \in {"idle", "done"}
    /\ treq[p].n < MaxRequests
    /\ treq' = [treq EXCEPT ![p] =
                  IF token # 0 THEN [r EXCEPT !.pc = "done", !.got = token]
                  ELSE [r EXCEPT !.pc = "post"]]
    /\ UNCHANGED <<pcall, env, crm, token, issued, now, made, delivered, h>>

\* The POST without the check of its status: the body of a failed exchange
\* (no token of the endpoint's) is taken for the token and cached.
TokenExchangeUnchecked(p) ==
    /\ treq[p].pc = "post"
    /\ \E ok \in BOOLEAN :
        /\ issued' = IF ok THEN Append(issued, now + TokenLifetime) ELSE issued
        /\ treq' = [treq EXCEPT ![p].pc = "store", ![p].refreshes = @ + 1,
                                ![p].tok = IF ok THEN Len(issued) + 1 ELSE -1]
    /\ UNCHANGED <<pcall, env, crm, token, now, made, delivered, h>>

\* The POST to the token endpoint: a new token, or an answer the call raises
\* on (a status that is not 200, or a body without access_token).
TokenExchange(p) ==
    /\ treq[p].pc = "post"
    /\ \E ok \in BOOLEAN :
        IF ok
        THEN /\ issued' = Append(issued, now + TokenLifetime)
             /\ treq' = [treq EXCEPT ![p].pc = "store", ![p].refreshes = @ + 1,
                                     ![p].tok = Len(issued) + 1]
        ELSE /\ issued' = issued
             /\ treq' = [treq EXCEPT ![p].pc = "done", ![p].refreshes = @ + 1]
    /\ UNCHANGED <<pcall, env, crm, token, now, made, delivered, h>>

\* _token_cache["token"] = tok; return tok
TokenStore(p) ==
    /\ treq[p].pc = "store"
    /\ token' = treq[p].tok
    /\ treq' = [treq EXCEPT ![p].pc = "done", ![p].got = treq[p].tok]
    /\ UNCHANGED <<pcall, env, crm, issued, now, made, delivered, h>>

\* Time passes.
Tick ==
    /\ now < MaxTime
    /\ now' = now + 1
    /\ UNCHANGED <<pcall, env, crm, token, issued, made, delivered, h, treq>>

zoho_access_token(p) == TokenRequest(p) \/ TokenExchange(p) \/ TokenStore(p)

InitToken == InitWith({Env("k1", "u1", TRUE, TRUE)}, {Nobody})

\* Calls of zoho_access_token one after another, as time passes.
NextToken == zoho_access_token(1) \/ Tick

SpecToken == InitToken /\ [][NextToken]_vars

\* Calls of zoho_access_token by two callers at once, their steps in any
\* order: every schedule of the callers, those of one event loop (where a
\* call runs to its end) among them.
NextTokenRace == (\E p \in Procs : zoho_access_token(p)) \/ Tick

SpecTokenRace == InitToken /\ [][NextTokenRace]_vars

(***************************************************************************)
(* normalize_phone applied to a string, and again to its result.           *)
(***************************************************************************)
PhoneChars == {"+", "0", "5", " ", "-"}
TenDigits == <<"5", "5", "5", "0", "0", "0", "1", "1", "1", "1">>
\* The arguments: every short string, and strings of ten digits, alone,
\* after a "+", after a zero and with a zero first.
PhoneInputs ==
    UNION {[1..k -> PhoneChars] : k \in 0..MaxPhoneLen}
      \cup {TenDigits, <<"+">> \o TenDigits, <<"0">> \o TenDigits,
            <<"0">> \o SubSeq(TenDigits, 1, 9)}

NormalizeOnce ==
    /\ pcall.pc \in {"idle", "twice"}
    /\ \E x \in PhoneInputs :
         pcall' = [pc |-> "once", x |-> x, once |-> normalize_phone(x), twice |-> NoPhone]
    /\ UNCHANGED <<env, crm, token, issued, now, delivered, made, h, treq>>

NormalizeTwice ==
    /\ pcall.pc = "once"
    /\ pcall' = [pcall EXCEPT !.pc = "twice", !.twice = normalize_phone(pcall.once)]
    /\ UNCHANGED <<env, crm, token, issued, now, delivered, made, h, treq>>

NextPhone == NormalizeOnce \/ NormalizeTwice

SpecPhone == InitToken /\ [][NextPhone]_vars

(***************************************************************************)
(* Properties.                                                             *)
(***************************************************************************)
\* The calendar entries of booking b among the events evs, and its deals.
EntriesIn(evs, b) == {i \in DOMAIN evs : evs[i].ext = b}
DealsIn(ds, b) == {i \in DOMAIN ds : ds[i].ext = b}

\* Handler p has answered its request.
Answered(p, code, marker) ==
    h[p].pc = "done" /\ h[p].code = code /\ h[p].marker = marker

\* C1. Deliveries handled one after another, the CRM's calls succeeding: no
\* booking id ever has two calendar entries, and when a booking.created or
\* booking.updated delivery has been handled to its end (answered 200 with
\* the summary), the CRM holds exactly one entry with that booking's id,
\* whatever was delivered before for it (the same event included).
C1_OneEntryPerBooking ==
    /\ \A b \in Bookings : Cardinality(EntriesIn(events, b)) <= 1
    /\ \A p \in Procs :
         Answered(p, 200, "ok")
           /\ h[p].body.type \in {"booking.created", "booking.updated"}
         => Cardinality(EntriesIn(events, h[p].bid)) = 1

\* A booking.created delivery handled for a booking that had its entry
\* already: a redelivery.
C1_Witness ==
    /\ Answered(1, 200, "ok")
    /\ h[1].body.type = "booking.created"
    /\ EntriesIn(h[1].pre.events, h[1].bid) # {}
    /\ Cardinality(EntriesIn(events, h[1].bid)) = 1

\* C2. When booking.canceled has been handled for a booking that has its
\* calendar entry (booking.created was handled before), the booking still has
\* that one entry and the entry is marked canceled; when the entry was
\* canceled already and the customer's name is the one it was canceled with
\* (the same event delivered again), the CRM is as the request found it.
C2_CancelMarksEntry ==
    \A p \in Procs :
      LET before == EntriesIn(h[p].pre.events, h[p].bid) IN
      Answered(p, 200, "canceled processed") /\ before # {}
      => /\ EntriesIn(events, h[p].bid) = before
         /\ Cardinality(before) = 1
         /\ \A i \in before : events[i].canceled
         /\ (\A i \in before : h[p].pre.events[i].canceled
                               /\ h[p].pre.events[i].name = h[p].name)
            => Snapshot = h[p].pre

\* booking.canceled handled a second time.
C2_Witness ==
    /\ Answered(1, 200, "canceled processed")
    /\ \E i \in EntriesIn(h[1].pre.events, h[1].bid) :
         /\ h[1].pre.events[i].canceled
         /\ h[1].pre.events[i].name = h[1].name
         /\ events[i].canceled
    /\ Snapshot = h[1].pre

\* C3. With DEAL_EXT_ID_FIELD configured, no booking id ever has two deals,
\* whatever events were handled for it, in whatever order.
C3_OneDealPerBooking ==
    env.dealExt => \A b \in Bookings : Cardinality(DealsIn(deals, b)) <= 1

\* A delivery handled for a booking whose deal carries another name than the
\* customer has now: the search by name would not find it.
C3_Witness ==
    /\ env.dealExt
    /\ h[1].pc = "done" /\ h[1].code = 200 /\ h[1].did # 0
    /\ \E i \in DealsIn(h[1].pre.deals, h[1].bid) :
         h[1].pre.deals[i].name # build_deal_name(h[1].name, h[1].bid)
    /\ Cardinality(DealsIn(deals, h[1].bid)) = 1

\* C4. (The claim as stated.)  When ensure_contact has resolved an identity
\* (email, phone) for which the request before this one created a contact,
\* it has returned that contact's id and has created no contact.
C4_SamePersonTwice ==
    \A p \in Procs : \A m \in made :
      /\ h[p].cid # 0
      /\ m.email = h[p].email /\ m.phone = h[p].phone
      /\ m.at = delivered - 1
      => h[p].cid = m.cid /\ Len(contacts) = Len(h[p].pre.contacts)

\* Whether person record rec matches the identity: its Email is the email,
\* or its Phone or Mobile is the normalized phone.
Matches(rec, email, phone) ==
    \/ email # "" /\ rec.Email = email
    \/ /\ normalize_phone(phone) # << >>
       /\ normalize_phone(phone) \in {rec.Phone, rec.Mobile}

Genuine(r) == r.sigv = Signature(env.key, env.url, r.body)

\* Handler p made no outbound call and left the CRM as it found it.
NoSideEffects(p) ==
    /\ h[p].nSquare = 0 /\ h[p].nCrm = 0 /\ h[p].nRefresh = 0
    /\ Snapshot = h[p].pre

\* C6. A request whose signature header is missing or is not the signature of
\* its body is answered 401, and is answered at once: no request to Square,
\* no token refresh, no CRM call, the CRM unchanged.
C6_BadSignatureDropped ==
    \A p \in Procs :
      h[p].pc # "idle" /\ ~Genuine(h[p])
      => h[p].pc = "done" /\ h[p].code = 401 /\ NoSideEffects(p)

\* A request signed with another key, rejected when the CRM holds records.
C6_Witness ==
    /\ h[1].pc = "done" /\ h[1].code = 401
    /\ h[1].sigv = Signature("k2", SignedUrl, h[1].body)
    /\ h[1].body.type = "booking.created"
    /\ events # << >>
    /\ NoSideEffects(1)

\* C7. (The claim as stated.)  With no key configured, a request that carries
\* a signature passes the verifier and is not answered 401.
C7_PassOpen ==
    \A p \in Procs :
      env.key = "" /\ h[p].pc # "idle" /\ h[p].sigv # NoSignature
      => /\ is_valid_webhook_event_signature(h[p].body, h[p].sigv, env.key, env.url)
         /\ h[p].code # 401

\* C7, amended.  With no key configured the verifier returns false for every
\* request and the handler answers 401 without processing the event.
C7_FailClosed ==
    \A p \in Procs :
      env.key = "" /\ h[p].pc # "idle"
      => /\ ~is_valid_webhook_event_signature(h[p].body, h[p].sigv, env.key, env.url)
         /\ h[p].pc = "done" /\ h[p].code = 401 /\ NoSideEffects(p)

\* A signed booking event rejected because no key is configured.
C7_Witness ==
    /\ env.key = "" /\ env.url = SignedUrl
    /\ h[1].pc = "done" /\ h[1].code = 401
    /\ h[1].sigv # NoSignature
    /\ h[1].body.type = "booking.created"

\* C8. (The claim as stated.)  A request that passed the signature check and
\* whose type is none of booking.created, booking.updated, booking.canceled
\* is answered 200 with the ignored marker and changes nothing in the CRM.
C8_UnrecognizedIgnored ==
    \A p \in Procs :
      /\ h[p].pc # "idle"
      /\ is_valid_webhook_event_signature(h[p].body, h[p].sigv, env.key, env.url)
      /\ h[p].body.json
      /\ h[p].body.type \notin {"booking.created", "booking.updated", "booking.canceled"}
      => Answered(p, 200, "ignored") /\ Snapshot = h[p].pre

\* C9. square_get_booking makes at most FetchAttempts requests and makes
\* another one only after a 404; when it ends without a booking the handler
\* answers 200 "booking not available yet" having made no CRM call and
\* changed nothing in the CRM.
C9_BoundedFetch ==
    \A p \in Procs :
      /\ h[p].attempt <= FetchAttempts
      /\ (h[p].pc = "fetch" /\ h[p].attempt > 0 => h[p].last = "404")
      /\ (h[p].pc # "fetch" /\ h[p].attempt > 0 /\ h[p].last # "200"
          => /\ Answered(p, 200, "booking not available yet")
             /\ h[p].nCrm = 0 /\ h[p].nRefresh = 0
             /\ Snapshot = h[p].pre)

\* The booking was not found FetchAttempts times, in a CRM that holds records.
C9_Witness ==
    /\ Answered(1, 200, "booking not available yet")
    /\ h[1].attempt = FetchAttempts /\ h[1].last = "404"
    /\ h[1].nSquare = FetchAttempts
    /\ events # << >>

\* C10. (The claim as stated.)  A call of zoho_access_token that began with a
\* cached token that had not expired made no request to the token endpoint;
\* one that began with a cached token that had expired made exactly one and
\* returned the token that request issued.
C10_TokenCache ==
    \A p \in Procs :
      treq[p].pc = "done" /\ treq[p].had
      => IF treq[p].expired
         THEN treq[p].refreshes = 1
              /\ (treq[p].got # 0 => treq[p].got = treq[p].tok /\ ~Expired(treq[p].got))
         ELSE treq[p].refreshes = 0

(***************************************************************************)
(* CRM calls that fail.                                                    *)
(***************************************************************************)
\* C11. A CRM call answered "too many requests" is tried again, up to 5
\* attempts in all: no request ends in failure on a rate-limit answer before
\* the call that received it has been made 5 times.
C11_RateLimitRetried ==
    \A p \in Procs :
      (h[p].pc = "done" /\ h[p].code = 500 /\ h[p].out = "limited")
      => h[p].tries >= 5

\* C12. A request during which a CRM create or update (of a contact, a deal
\* or a calendar entry) was answered an error status is answered 500.
C12_WriteFailureIs500 ==
    \A p \in Procs : (h[p].pc = "done" /\ h[p].wfail) => h[p].code = 500

\* C15. When booking.canceled is answered with success, the booking's deal
\* is in the canceled stage.
C15_CanceledAnswerMeansLost ==
    \A p \in Procs :
      Answered(p, 200, "canceled processed")
      => /\ h[p].did \in DOMAIN deals
         /\ deals[h[p].did].stage = CANCELED_DEAL_STAGE

\* C17. When the booking has its calendar entry and the update of the entry
\* found has failed, the handler's next call adds no entry for the booking.
C17_NoBlindCreate ==
    [][\A p \in Procs :
         (h[p].pc = "e_create" /\ h[p].eid # 0
            /\ EntriesIn(events, h[p].bid) # {})
         => EntriesIn(events', h[p].bid) = EntriesIn(events, h[p].bid)]_vars

\* C13. normalize_phone is idempotent: applied to its own result it returns
\* that result.
C13_NormalizeIdempotent == pcall.pc = "twice" => pcall.twice = pcall.once

(***************************************************************************)
(* Cancellation, and the empty identity.                                   *)
(***************************************************************************)
\* C14. Canceled is terminal: no step of any handler writes another stage to
\* a deal that is in the canceled stage.
C14_CanceledIsTerminal ==
    [][\A d \in DOMAIN deals :
         deals[d].stage = CANCELED_DEAL_STAGE
         => deals'[d].stage = CANCELED_DEAL_STAGE]_vars

\* C19. booking.canceled handled for a booking that had no calendar entry
\* leaves the CRM without an entry for it and creates no deal.
C19_CancelUnknownIsNoOp ==
    \A p \in Procs :
      (Answered(p, 200, "canceled processed")
         /\ EntriesIn(h[p].pre.events, h[p].bid) = {})
      => /\ EntriesIn(events, h[p].bid) = {}
         /\ Len(deals) = Len(h[p].pre.deals)

\* C20. A request whose customer has neither email nor phone, once it has
\* come to the resolution of the person (the customer was read), creates no
\* contact and does not end in success.
C20_EmptyIdentityRejected ==
    \A p \in Procs :
      (h[p].name # "" /\ h[p].email = "" /\ h[p].phone = NoPhone)
      => /\ Len(contacts) = Len(h[p].pre.contacts)
         /\ h[p].pc = "done" => h[p].code # 200

(***************************************************************************)
(* Concurrent handlers and concurrent token requests.                      *)
(***************************************************************************)
\* C16. However the calls of two handlers of the same booking interleave,
\* the booking has at most one calendar entry and at most one deal.
C16_NoDuplicateUnderRace ==
    \A b \in Bookings :
      /\ Cardinality(EntriesIn(events, b)) <= 1
      /\ Cardinality(DealsIn(deals, b)) <= 1

\* C18. Whatever the order of the steps of concurrent token requests, the
\* cache holds no token or a token a successful exchange issued, a caller
\* about to write the cache writes such a token, and a call that returned a
\* token returned such a token.
C18_CacheNeverCorrupted ==
    /\ token = 0 \/ token \in DOMAIN issued
    /\ \A p \in Procs :
         /\ treq[p].pc = "store" => treq[p].tok \in DOMAIN issued
         /\ (treq[p].pc = "done" /\ treq[p].got # 0) => treq[p].got \in DOMAIN issued

\* Duplicate refreshes: two callers found the cache empty, both refreshed
\* and both returned, each its own token; the cache holds the token of the
\* caller that wrote last, here the token that was issued first.
C18_Witness ==
    /\ treq[1].pc = "done" /\ treq[2].pc = "done"
    /\ treq[1].refreshes = 1 /\ treq[2].refreshes = 1
    /\ treq[1].got # 0 /\ treq[2].got # 0 /\ treq[1].got # treq[2].got
    /\ token = treq[1].got
    /\ treq[1].got < treq[2].got

(***************************************************************************)
(* The order of the person resolver's searches.                            *)
(***************************************************************************)
\* The contacts that, when the request of handler p arrived, matched its
\* customer's email, and those whose Phone or Mobile matched the phone.
EmailMatches(p) ==
    {i \in DOMAIN h[p].pre.contacts :
        h[p].email # "" /\ h[p].pre.contacts[i].Email = h[p].email}
PhoneMatches(p) ==
    LET np == normalize_phone(h[p].phone) IN
    {i \in DOMAIN h[p].pre.contacts :
        np # << >> /\ (h[p].pre.contacts[i].Phone = np
                        \/ h[p].pre.contacts[i].Mobile = np)}

\* C21. When one contact matches the email and another contact matches the
\* phone, the resolver makes no search by phone, creates no contact, and the
\* contact it returns is the one the email matches.
C21_EmailFirst ==
    \A p \in Procs :
      (h[p].name # "" /\ EmailMatches(p) # {}
         /\ PhoneMatches(p) \ EmailMatches(p) # {})
      => /\ h[p].nPhone = 0
         /\ Len(contacts) = Len(h[p].pre.contacts)
         /\ h[p].cid # 0 => (h[p].cid \in EmailMatches(p) /\ h[p].found_by = "email")

\* A request handled to its end for a customer whose email one contact
\* carries and whose phone another carries.
C21_Witness ==
    /\ Answered(1, 200, "ok")
    /\ EmailMatches(1) # {}
    /\ PhoneMatches(1) \ EmailMatches(1) # {}
    /\ h[1].cid \in EmailMatches(1)
    /\ h[1].cid \notin PhoneMatches(1)
====
